---- MODULE Spec2Model ----
(***************************************************************************)
(* Model of jwst-target-parameters: the row merge of main.update_frame /   *)
(* main.update_rows, the query construction and the lost-target check of   *)
(* modules/epa_query.py, and the file loop of main.main.                   *)
(*                                                                         *)
(* Python str values are TLA+ strings.  A polars DataFrame is a record     *)
(* [columns |-> set of column names, rows |-> sequence of rows], a row     *)
(* being a function from the column names to cell values.  A call that     *)
(* raises is a result whose field "raised" names the exception.            *)
(***************************************************************************)
EXTENDS Integers, Sequences, FiniteSets, TLC

VARIABLES
    pc,             \* position of the modelled call
    parent_frame,   \* update_frame: the local table (with jwst_cycle)
    child_frame,    \* update_frame: the renamed query result
    finalised,      \* update_frame: what the call produced
    target_names,   \* query_nasa_epa: the names asked for
    parameter_list, \* create_query_parameter_catalogue: its argument
    full_query_list,\* query_nasa_epa: the expanded catalogue
    adql_query,     \* query_nasa_epa: the query text
    result_table,   \* query_nasa_epa: what service.search returned
    log,            \* the records written to the log file
    listdir,        \* main: the names in the input directory
    contents,       \* main: the table each csv file holds
    archive,        \* main: the rows the remote table holds
    filenames,      \* main: sorted(os.listdir(INPUT))
    position,       \* main: how many names the loop has passed
    query_all_cycles, \* main: the frames collected so far
    output,         \* main: the files written, in order
    calls,          \* main: what was read, queried, written, appended
    error           \* main: the exception that ended the run

frame_vars == << parent_frame, child_frame, finalised >>
query_vars == << target_names, parameter_list, full_query_list, adql_query,
                 result_table >>
run_vars == << listdir, contents, archive, filenames, position,
               query_all_cycles, output, calls >>
main_vars == << run_vars, error >>
vars == << pc, frame_vars, query_vars, log, main_vars >>

(***************************************************************************)
(* Bounds                                                                  *)
(***************************************************************************)
MaxLocalRows == 2
MaxRemoteRows == 2
MaxTargets == 2
MaxResultRows == 2
MaxParameters == 2
NumCycles == 2
MaxFileRows == 1
MaxArchiveRows == 2

(***************************************************************************)
(* Strings: ordinal comparison, as Python's and polars' sort compare them  *)
(***************************************************************************)
Alphabet == << ".", "0", "1", "2", "3", "4", "5", "6", "7", "8", "9",
               "A", "B", "c", "e", "l", "s", "t", "v", "x", "y" >>

Ord(ch) == CHOOSE i \in 1..Len(Alphabet) : Alphabet[i] = ch

RECURSIVE StrLess(_, _)
StrLess(a, b) ==
    IF Len(b) = 0 THEN FALSE
    ELSE IF Len(a) = 0 THEN TRUE
    ELSE IF SubSeq(a, 1, 1) = SubSeq(b, 1, 1) THEN StrLess(Tail(a), Tail(b))
    ELSE Ord(SubSeq(a, 1, 1)) < Ord(SubSeq(b, 1, 1))

StrLeq(a, b) == a = b \/ StrLess(a, b)

(***************************************************************************)
(* Tables                                                                  *)
(***************************************************************************)
NaN == "NaN"
NoError == "none"

PlanetNames == { "A", "B" }
Pids == { "1201", "1224" }
Radii == { "1.5", "2.5" }
HostOf(name) == "host " \o name

SeqsUpTo(S, n) == UNION { [1..k -> S] : k \in 0..n }

Frame(cols, rs) == [columns |-> cols, rows |-> rs]

\* main.read_jwst_cycle: the cycle number is the last character of the file
\* stem, and every row of the file gets it as jwst_cycle.
Digits == << "0", "1", "2", "3", "4", "5", "6", "7", "8", "9" >>
int(ch) == (CHOOSE i \in 1..10 : Digits[i] = ch) - 1

RECURSIVE FirstDot(_, _)
FirstDot(s, i) ==
    IF i > Len(s) THEN Len(s) + 1
    ELSE IF SubSeq(s, i, i) = "." THEN i
    ELSE FirstDot(s, i + 1)

\* filename.split(".")[0]
Stem(filename) == SubSeq(filename, 1, FirstDot(filename, 1) - 1)

read_jwst_cycle(filename, csv) ==
    LET stem == Stem(filename)
        cycle_number == int(SubSeq(stem, Len(stem), Len(stem)))
    IN  [frame |-> Frame(csv.columns \cup {"jwst_cycle"},
                         [i \in 1..Len(csv.rows) |->
                             [jwst_cycle |-> cycle_number] @@ csv.rows[i]]),
         cycle_n |-> cycle_number]

\* numpy.setdiff1d: the values of a that are not in b
setdiff1d(a, b) == a \ b

\* DataFrame.row(by_predicate = (planet_name == name)): the positions kept
RowsByPredicate(query_result, name) ==
    { i \in 1..Len(query_result.rows) :
        query_result.rows[i]["planet_name"] = name }

\* update_rows with the row's cells kept where the match has the column
update_rows_keeps_cells(row_dict, query_result) ==
    LET hits == RowsByPredicate(query_result, row_dict["planet_name"])
    IN  IF Cardinality(hits) > 1
        THEN [raised |-> "TooManyRowsReturnedError", row |-> row_dict]
        ELSE IF Cardinality(hits) = 0
        THEN [raised |-> NoError, row |-> row_dict]
        ELSE LET relevant_query == query_result.rows[CHOOSE i \in hits : TRUE]
             IN  [raised |-> NoError, row |-> row_dict @@ relevant_query]

\* update_rows without the except clause
update_rows_uncaught(row_dict, query_result) ==
    LET hits == RowsByPredicate(query_result, row_dict["planet_name"])
    IN  IF Cardinality(hits) > 1
        THEN [raised |-> "TooManyRowsReturnedError", row |-> row_dict]
        ELSE IF Cardinality(hits) = 0
        THEN [raised |-> "NoRowsReturnedError", row |-> row_dict]
        ELSE LET relevant_query == query_result.rows[CHOOSE i \in hits : TRUE]
             IN  [raised |-> NoError, row |-> relevant_query @@ row_dict]

\* update_rows taking the first of several matches
update_rows_first_match(row_dict, query_result) ==
    LET hits == RowsByPredicate(query_result, row_dict["planet_name"])
    IN  IF Cardinality(hits) = 0
        THEN [raised |-> NoError, row |-> row_dict]
        ELSE LET relevant_query ==
                     query_result.rows[CHOOSE i \in hits :
                                          \A j \in hits : i <= j]
             IN  [raised |-> NoError, row |-> relevant_query @@ row_dict]

\* main.update_rows: exactly one matching row overwrites the row's cells with
\* every cell of the match; no match raises NoRowsReturnedError, which is
\* caught; several matches raise TooManyRowsReturnedError, which is not.
update_rows(row_dict, query_result) ==
    LET hits == RowsByPredicate(query_result, row_dict["planet_name"])
    IN  IF Cardinality(hits) > 1
        THEN [raised |-> "TooManyRowsReturnedError", row |-> row_dict]
        ELSE IF Cardinality(hits) = 0
        THEN [raised |-> NoError, row |-> row_dict]
        ELSE LET relevant_query == query_result.rows[CHOOSE i \in hits : TRUE]
             IN  [raised |-> NoError, row |-> relevant_query @@ row_dict]

\* DataFrame.sort(by = "planet_name"): maintain_order is left at False, so
\* the order of rows with equal names is any order.
IsSortedByName(rs) ==
    \A i \in 1..Len(rs) : \A j \in 1..Len(rs) :
        i < j => StrLeq(rs[i]["planet_name"], rs[j]["planet_name"])

Permutations_(n) ==
    { p \in [1..n -> 1..n] : \A i \in 1..n : \E j \in 1..n : p[j] = i }

Reorderings(rs) ==
    { [i \in 1..Len(rs) |-> rs[p[i]]] : p \in Permutations_(Len(rs)) }

\* sort that leaves the rows as they are
sort_keeps_order(rs) == { rs }

sort(rs) == { s \in Reorderings(rs) : IsSortedByName(s) }

\* What a call that raised leaves: no table.  "at" is the row whose
\* update_rows call raised (0: none did).
Raised(exception, i) ==
    [raised |-> exception, at |-> i, columns |-> {}, rows |-> << >>]

Min(S) == CHOOSE i \in S : \A j \in S : i <= j

\* main.update_frame: the set of results the call can produce
update_frame(parent, child) ==
    LET queried_columns == setdiff1d(child.columns, parent.columns)
        final_frame ==
            [i \in 1..Len(parent.rows) |->
                parent.rows[i] @@ [c \in queried_columns |-> NaN]]
        temporary_dictionary ==
            [i \in 1..Len(final_frame) |-> update_rows(final_frame[i], child)]
        failed == { i \in 1..Len(final_frame) :
                      temporary_dictionary[i].raised # NoError }
    IN  IF failed # {}
        THEN { Raised(temporary_dictionary[Min(failed)].raised, Min(failed)) }
        ELSE IF Len(final_frame) = 0
        \* pl.DataFrame([]) has no column, so sort(by="planet_name") raises
        THEN { Raised("ColumnNotFoundError", 0) }
        ELSE { [raised |-> NoError, at |-> 0,
                columns |-> parent.columns \cup child.columns,
                rows |-> s] :
               s \in sort([i \in 1..Len(final_frame) |->
                              temporary_dictionary[i].row]) }

(***************************************************************************)
(* modules/epa_query.py.  A dict is the sequence of its <<key, value>>      *)
(* pairs in insertion order.                                               *)
(***************************************************************************)
QUERY_PARAMETERS == <<
    << "pl_name", "planet_name" >>, << "sy_pnum", "system_p-num" >>,
    << "sy_snum", "system_s-num" >>,
    << "hostname", "host_name" >>, << "pl_letter", "planet_id" >>,
    << "sy_dist", << "system-distance", "pc" >> >>,
    << "pl_orbper", << "period", "day" >> >>,
    << "pl_orbsmax", << "sma", "au" >> >>,
    << "pl_rade", << "radius", "rearth" >> >>,
    << "pl_bmasse", << "mass", "mearth" >> >>,
    << "pl_eqt", << "eq-temp", "kelvin" >> >>,
    << "st_teff", << "star-teff", "kelvin" >> >>,
    << "st_rad", << "star-radius", "rsol" >> >>,
    << "st_mass", << "star-mass", "msol" >> >>,
    << "st_lum", << "star-log10-lbol", "lsol" >> >>,
    << "st_age", << "star-age", "ga" >> >>,
    << "st_vsin", << "star-rotvel", "kms" >> >> >>

keys(d) == [i \in 1..Len(d) |-> d[i][1]]
KeySet(d) == { d[i][1] : i \in 1..Len(d) }
Get(d, key) == d[CHOOSE i \in 1..Len(d) : d[i][1] = key][2]

\* d | e: the keys of d in their order, with e's value where e has the key,
\* then the keys only e has, in e's order
DictOr(d, e) ==
    [i \in 1..Len(d) |->
        IF d[i][1] \in KeySet(e) THEN << d[i][1], Get(e, d[i][1]) >> ELSE d[i]]
    \o SelectSeq(e, LAMBDA pair : pair[1] \notin KeySet(d))

\* A dict display: a key written twice keeps its first place and its last
\* value.
RECURSIVE DictOf(_)
DictOf(pairs) ==
    IF pairs = << >> THEN << >>
    ELSE DictOr(DictOf(SubSeq(pairs, 1, Len(pairs) - 1)),
                << pairs[Len(pairs)] >>)

\* assign_query_parameters with the limit flag that the source comments out
assign_query_parameters_with_limit(epa_name, table_name, unit) ==
    DictOf(<< << epa_name, table_name \o "_" \o unit >>,
              << epa_name \o "err1", table_name \o "_errpos" >>,
              << epa_name \o "err2", table_name \o "_errneg" >>,
              << epa_name \o "_reflink", table_name \o "_ref" >>,
              << epa_name \o "lim", table_name \o "_limit" >> >>)

assign_query_parameters(epa_name, table_name, unit) ==
    DictOf(<< << epa_name, table_name \o "_" \o unit >>,
              << epa_name \o "err1", table_name \o "_errpos" >>,
              << epa_name \o "err2", table_name \o "_errneg" >>,
              << epa_name \o "_reflink", table_name \o "_ref" >> >>)

exceptions == { "pl_name", "sy_pnum", "sy_snum", "hostname", "pl_letter" }

RECURSIVE create_query_parameter_catalogue(_)
create_query_parameter_catalogue(parameters) ==
    IF parameters = << >> THEN << >>
    ELSE LET n == Len(parameters)
             finalised_dictionary ==
                 create_query_parameter_catalogue(SubSeq(parameters, 1, n - 1))
             key == parameters[n][1]
             value == parameters[n][2]
         IN  IF key \in exceptions
             THEN DictOr(finalised_dictionary, << << key, value >> >>)
             ELSE DictOr(finalised_dictionary,
                         assign_query_parameters(key, value[1], value[2]))

\* The string the loop of string_from_list builds: every name between two
\* qualifiers and followed by a comma, in the order of the list.  The list is
\* halved rather than walked, which keeps the evaluation shallow for the 53
\* columns of the full catalogue.
RECURSIVE Concatenated(_, _)
Concatenated(names, qualifier) ==
    IF names = << >> THEN ""
    ELSE IF Len(names) = 1 THEN qualifier \o names[1] \o qualifier \o ","
    ELSE LET half == Len(names) \div 2
         IN  Concatenated(SubSeq(names, 1, half), qualifier)
             \o Concatenated(SubSeq(names, half + 1, Len(names)), qualifier)

\* s[:-1]
DropLast(s) == SubSeq(s, 1, Len(s) - 1)

\* string_from_list without the removal of the trailing comma
string_from_list_keeps_comma(names, qualifier) ==
    Concatenated(names, qualifier)

string_from_list(names, qualifier) ==
    DropLast(Concatenated(names, qualifier))

construct_adql_query(planet_names, query_parameter_list) ==
    LET selection_string == string_from_list(keys(query_parameter_list), "")
        name_sequence == string_from_list(planet_names, "'")
        base_str == "SELECT " \o selection_string \o " FROM pscomppars "
        query_name == "WHERE pl_name IN (" \o name_sequence \o ")"
    IN  base_str \o query_name

\* numpy.setxor1d: the values that are in exactly one of the two arrays
Values(array) == { array[i] : i \in 1..Len(array) }
setxor1d(a, b) == (Values(a) \ Values(b)) \cup (Values(b) \ Values(a))

\* pandas_frame.rename(columns=full_query_list)
rename(columns, mapping) ==
    { IF c \in KeySet(mapping) THEN Get(mapping, c) ELSE c : c \in columns }

LogRecord(level, text, count, names) ==
    [level |-> level, text |-> text, count |-> count, names |-> names]

\* The record that ends query_nasa_epa's sanity check
LostTargetsRecord(lost_targets) ==
    IF Cardinality(lost_targets) = 0
    THEN LogRecord("INFO", "All targets queried successfully!", 0, {})
    ELSE LogRecord("WARNING", "could not be queried in the EPA",
                   Cardinality(lost_targets), lost_targets)

(***************************************************************************)
(* main.py: save_parameters, handle_single_file and main                   *)
(***************************************************************************)
INPUT == "input"
OUTPUT == "output"

RECURSIVE LastDot(_, _)
LastDot(s, i) ==
    IF i = 0 THEN 0
    ELSE IF SubSeq(s, i, i) = "." THEN i
    ELSE LastDot(s, i - 1)

\* filename.split(".")[-1]
LastPart(filename) ==
    SubSeq(filename, LastDot(filename, Len(filename)) + 1, Len(filename))

\* sorted(names), for names that differ from one another
sorted(names) ==
    CHOOSE s \in [1..Cardinality(names) -> names] :
        \A i \in DOMAIN s : \A j \in DOMAIN s : i < j => StrLess(s[i], s[j])

str(n) == Digits[n + 1]

intial_parameters ==
    { "planet_name", "jwst_instrument", "jwst_filter", "jwst_dispersion",
      "type", "num_obs", "jwst_cycle", "pid", "eap_months" }
planet_parameters ==
    { "radius_rearth", "mass_mearth", "period_day", "sma_au",
      "eq-temp_kelvin" }
star_parameters ==
    { "host_name", "system_p-num", "system_s-num",
      "system-distance_pc", "star-teff_kelvin",
      "star-radius_rsol", "star-mass_msol", "star-log10-lbol_lsol",
      "star-age_ga", "star-rotvel_kms" }
selection == intial_parameters \cup planet_parameters \cup star_parameters

\* total_frame[selection]
Select(frame, columns) ==
    Frame(columns,
          [i \in 1..Len(frame.rows) |-> [c \in columns |-> frame.rows[i][c]]])

\* main.save_parameters: the files written, in order; the reduced frame
\* needs every selected column.
save_parameters(total_frame, cycle_number) ==
    LET full == [file |-> OUTPUT \o "/parameters_full/jtp_full_cycle-"
                              \o cycle_number \o ".csv",
                 frame |-> total_frame]
        reduced == [file |-> OUTPUT \o "/jtp_cycle-" \o cycle_number \o ".csv",
                    frame |-> Select(total_frame, selection)]
    IN  IF selection \subseteq total_frame.columns
        THEN [raised |-> NoError, written |-> << full, reduced >>]
        ELSE [raised |-> "ColumnNotFoundError", written |-> << full >>]

\* cycle_frame.unique(subset=["planet_name"], maintain_order=True)
\* ["planet_name"]: the names in the order they first occur
RECURSIVE unique_names(_)
unique_names(rows) ==
    IF rows = << >> THEN << >>
    ELSE LET before == unique_names(SubSeq(rows, 1, Len(rows) - 1))
             name == rows[Len(rows)]["planet_name"]
         IN  IF name \in Values(before) THEN before ELSE Append(before, name)

\* pl.col(...).cast(pl.Float64) of a cell
Float64(value) == IF value = NaN THEN NaN ELSE value \o ".0"

with_columns_cast(frame) ==
    Frame(frame.columns,
          [i \in 1..Len(frame.rows) |->
              [c \in frame.columns |->
                  IF c \in { "system_p-num", "system_s-num" }
                  THEN Float64(frame.rows[i][c]) ELSE frame.rows[i][c]]])

\* pl.concat(frames): the rows of the frames, one frame after the other
RECURSIVE concat(_)
concat(frames) ==
    IF frames = << >> THEN << >>
    ELSE concat(SubSeq(frames, 1, Len(frames) - 1)) \o frames[Len(frames)].rows

\* What the remote table answers to WHERE pl_name IN (names): its rows with
\* one of the names, under the catalogue's local column names
\* The columns of query_nasa_epa's frame: QUERY_PARAMETERS expanded, each
\* remote name replaced by its local name
CatalogueColumns ==
    rename(KeySet(create_query_parameter_catalogue(QUERY_PARAMETERS)),
           create_query_parameter_catalogue(QUERY_PARAMETERS))

search(names) ==
    Frame(CatalogueColumns,
          SelectSeq(archive, LAMBDA row : row["planet_name"] \in Values(names)))

\* result_table["pl_name"]
NameColumn(frame) ==
    [i \in 1..Len(frame.rows) |-> frame.rows[i]["planet_name"]]

Call(op, what) == [op |-> op, what |-> what]

(***************************************************************************)
(* Specification of update_frame on bounded tables                         *)
(***************************************************************************)
LocalOnlyColumns == { "planet_name", "pid" }
RemoteColumns == { "planet_name", "host_name", "radius_rearth" }

LocalRows(withHost) ==
    IF withHost
    THEN { [planet_name |-> n, pid |-> p, host_name |-> "local host"] :
             n \in PlanetNames, p \in Pids }
    ELSE { [planet_name |-> n, pid |-> p] : n \in PlanetNames, p \in Pids }

CsvTables ==
    { Frame(LocalOnlyColumns, rs) :
        rs \in SeqsUpTo(LocalRows(FALSE), MaxLocalRows) }
    \cup
    { Frame(LocalOnlyColumns \cup {"host_name"}, rs) :
        rs \in SeqsUpTo(LocalRows(TRUE), MaxLocalRows) }

RemoteRows ==
    { [planet_name |-> n, host_name |-> HostOf(n), radius_rearth |-> r] :
        n \in PlanetNames, r \in Radii }

RemoteTables ==
    { Frame(RemoteColumns, rs) : rs \in SeqsUpTo(RemoteRows, MaxRemoteRows) }

FrameFile == "cycle1.csv"
NotRun == Raised("not run", 0)
NoFrame == Frame({}, << >>)

FramesIdle ==
    /\ parent_frame = NoFrame
    /\ child_frame = NoFrame
    /\ finalised = NotRun

QueryIdle ==
    /\ target_names = << >>
    /\ parameter_list = << >>
    /\ full_query_list = << >>
    /\ adql_query = ""
    /\ result_table = [pl_name |-> << >>, columns |-> {}]

MainIdle ==
    /\ listdir = {}
    /\ contents = << >>
    /\ archive = << >>
    /\ filenames = << >>
    /\ position = 0
    /\ query_all_cycles = << >>
    /\ output = << >>
    /\ calls = << >>
    /\ error = NoError

InitFrame ==
    /\ pc = "update_frame"
    /\ parent_frame \in { read_jwst_cycle(FrameFile, csv).frame :
                            csv \in CsvTables }
    /\ child_frame \in RemoteTables
    /\ finalised = NotRun
    /\ QueryIdle
    /\ MainIdle
    /\ log = << >>

UpdateFrame ==
    /\ pc = "update_frame"
    /\ finalised' \in update_frame(parent_frame, child_frame)
    /\ pc' = "returned"
    /\ UNCHANGED << parent_frame, child_frame, query_vars, log, main_vars >>

NextFrame == UpdateFrame

SpecFrame == InitFrame /\ [][NextFrame]_vars

(***************************************************************************)
(* Specification of query_nasa_epa on bounded names, catalogues and        *)
(* results.  The catalogue argument is QUERY_PARAMETERS or a small dict    *)
(* of the same shape.                                                      *)
(***************************************************************************)
QueryNames == { "55 Cnc e", "GJ 1214 b", "b," }

SmallEntries ==
    { << "pl_name", "planet_name" >>,
      << "hostname", "host_name" >>,
      << "pl_rade", << "radius", "rearth" >> >>,
      << "pl_radeerr1", << "radius-err", "rearth" >> >> }

IsDict(d) ==
    \A i \in 1..Len(d) : \A j \in 1..Len(d) : d[i][1] = d[j][1] => i = j

ParameterLists ==
    { QUERY_PARAMETERS }
    \cup { d \in SeqsUpTo(SmallEntries, MaxParameters) : IsDict(d) }

InitQuery ==
    /\ pc = "query_nasa_epa"
    /\ target_names \in SeqsUpTo(QueryNames, MaxTargets)
    /\ parameter_list \in ParameterLists
    /\ full_query_list = << >>
    /\ adql_query = ""
    /\ result_table = [pl_name |-> << >>, columns |-> {}]
    /\ log = << >>
    /\ FramesIdle
    /\ MainIdle

\* query_nasa_epa up to the call of service.search
BuildQuery ==
    /\ pc = "query_nasa_epa"
    /\ full_query_list' = create_query_parameter_catalogue(parameter_list)
    /\ adql_query' = construct_adql_query(target_names, full_query_list')
    /\ log' = log \o
         << LogRecord("INFO", "Querying NASA EPA", Len(target_names),
                      Values(target_names)),
            LogRecord("INFO", "All queries are made to the 'pscomppars' table",
                      0, {}) >>
    /\ pc' = "search"
    /\ UNCHANGED << target_names, parameter_list, result_table, frame_vars,
                    main_vars >>

\* service.search raises: nothing catches it
SearchRaises ==
    /\ pc = "search"
    /\ pc' = "raised"
    /\ error' = "DALServiceError"
    /\ UNCHANGED << query_vars, frame_vars, log, run_vars >>

\* service.search returns a table without the column pl_name
SearchLacksName ==
    /\ pc = "search"
    /\ "pl_name" \notin KeySet(full_query_list)
    /\ pc' = "raised"
    /\ error' = "KeyError"
    /\ UNCHANGED << query_vars, frame_vars, log, run_vars >>

\* service.search returns; the sanity check, the renaming and the return
SearchReturns ==
    /\ pc = "search"
    /\ "pl_name" \in KeySet(full_query_list)
    /\ \E pl_name \in SeqsUpTo(QueryNames, MaxResultRows) :
         LET lost_targets == setxor1d(target_names, pl_name)
         IN  /\ log' = Append(log, LostTargetsRecord(lost_targets))
             /\ result_table' =
                  [pl_name |-> pl_name,
                   columns |-> rename(KeySet(full_query_list), full_query_list)]
    /\ pc' = "returned"
    /\ UNCHANGED << target_names, parameter_list, full_query_list, adql_query,
                    frame_vars, main_vars >>

NextQuery == BuildQuery \/ SearchRaises \/ SearchLacksName \/ SearchReturns

SpecQuery == InitQuery /\ [][NextQuery]_vars

(***************************************************************************)
(* Specification of main on a bounded input directory.  The remote table   *)
(* answers a query with its rows of the requested names, or the query      *)
(* raises.                                                                 *)
(***************************************************************************)
CycleFiles(n) == { "cycle" \o str(k) \o ".csv" : k \in 1..n }
RogueFiles == { "cycle1.txt" }

CsvColumns == intial_parameters \ { "jwst_cycle" }

CsvRows ==
    { [c \in CsvColumns |-> IF c = "planet_name" THEN n ELSE "-"] :
        n \in PlanetNames }

ArchiveRows ==
    { [c \in CatalogueColumns |->
         IF c = "planet_name" THEN n
         ELSE IF c = "host_name" THEN HostOf(n)
         ELSE IF c \in { "system_p-num", "system_s-num" } THEN "1"
         ELSE "0.5"] :
        n \in PlanetNames }

InitMain ==
    /\ pc = "main"
    /\ listdir \in { CycleFiles(n) \cup rs : n \in 0..NumCycles,
                                             rs \in SUBSET RogueFiles }
    /\ contents \in [listdir \ RogueFiles ->
                       { Frame(CsvColumns, rs) :
                           rs \in SeqsUpTo(CsvRows, MaxFileRows) }]
    \* the remote table in name order: no operation reads the order
    /\ archive \in { rs \in SeqsUpTo(ArchiveRows, MaxArchiveRows) :
                       IsSortedByName(rs) }
    /\ filenames = << >>
    /\ position = 0
    /\ query_all_cycles = << >>
    /\ output = << >>
    /\ calls = << >>
    /\ error = NoError
    /\ log = << >>
    /\ FramesIdle
    /\ QueryIdle

\* main up to the loop: the logger is configured, the directory is listed
StartMain ==
    /\ pc = "main"
    /\ filenames' = sorted(listdir)
    /\ pc' = "loop"
    /\ UNCHANGED << listdir, contents, archive, position, query_all_cycles,
                    output, calls, error, log, frame_vars, query_vars >>

InLoop == pc = "loop" /\ position < Len(filenames)
filename == filenames[position + 1]
cycle == read_jwst_cycle(filename, contents[filename])
query_names == unique_names(cycle.frame.rows)

Compiling ==
    << LogRecord("INFO", "Compiling results for " \o filename, 0, {}),
       LogRecord("INFO", "Querying NASA EPA", Len(query_names),
                 Values(query_names)),
       LogRecord("INFO", "All queries are made to the 'pscomppars' table",
                 0, {}) >>

\* A rogue file is skipped
SkipFile ==
    /\ InLoop
    /\ LastPart(filename) # "csv"
    /\ position' = position + 1
    /\ calls' = Append(calls, Call("skip", filename))
    /\ UNCHANGED << pc, listdir, contents, archive, filenames,
                    query_all_cycles, output, error, log, frame_vars,
                    query_vars >>

\* The query raises and the loop goes on with the next file
HandleFileQueryRaises_caught ==
    /\ InLoop
    /\ LastPart(filename) = "csv"
    /\ parent_frame' = cycle.frame
    /\ child_frame' = NoFrame
    /\ finalised' = NotRun
    /\ calls' = calls \o << Call("read", filename), Call("query", filename) >>
    /\ log' = log \o Compiling
    /\ error' = "DALServiceError"
    /\ position' = position + 1
    /\ UNCHANGED << pc, listdir, contents, archive, filenames,
                    query_all_cycles, output, query_vars >>

\* handle_single_file: the query raises, and main with it
HandleFileQueryRaises ==
    /\ InLoop
    /\ LastPart(filename) = "csv"
    /\ parent_frame' = cycle.frame
    /\ child_frame' = NoFrame
    /\ finalised' = NotRun
    /\ calls' = calls \o << Call("read", filename), Call("query", filename) >>
    /\ log' = log \o Compiling
    /\ error' = "DALServiceError"
    /\ pc' = "raised"
    /\ UNCHANGED << listdir, contents, archive, filenames, position,
                    query_all_cycles, output, query_vars >>

\* handle_single_file: the query returns and update_frame raises
HandleFileUpdateRaises ==
    /\ InLoop
    /\ LastPart(filename) = "csv"
    /\ LET query_result == search(query_names)
       IN  /\ \E combined_frame \in update_frame(cycle.frame, query_result) :
                /\ combined_frame.raised # NoError
                /\ finalised' = combined_frame
                /\ error' = combined_frame.raised
           /\ child_frame' = query_result
           /\ log' = log \o Compiling \o
                << LostTargetsRecord(setxor1d(query_names,
                                              NameColumn(query_result))) >>
    /\ parent_frame' = cycle.frame
    /\ calls' = calls \o << Call("read", filename), Call("query", filename) >>
    /\ pc' = "raised"
    /\ UNCHANGED << listdir, contents, archive, filenames, position,
                    query_all_cycles, output, query_vars >>

\* handle_single_file returns: both outputs of the cycle are written, then
\* main casts the two system sizes and appends the frame
HandleFile ==
    /\ InLoop
    /\ LastPart(filename) = "csv"
    /\ LET query_result == search(query_names)
       IN  /\ \E combined_frame \in update_frame(cycle.frame, query_result) :
                LET saved == save_parameters(combined_frame, str(cycle.cycle_n))
                    done == << Call("read", filename), Call("query", filename) >>
                            \o [i \in 1..Len(saved.written) |->
                                   Call("write", saved.written[i].file)]
                IN  /\ combined_frame.raised = NoError
                    /\ finalised' = combined_frame
                    /\ output' = output \o saved.written
                    /\ IF saved.raised = NoError
                       THEN /\ query_all_cycles' =
                                 Append(query_all_cycles,
                                        with_columns_cast(combined_frame))
                            /\ calls' = calls \o done
                                        \o << Call("append", filename) >>
                            /\ position' = position + 1
                            /\ UNCHANGED << pc, error >>
                       ELSE /\ calls' = calls \o done
                            /\ error' = saved.raised
                            /\ pc' = "raised"
                            /\ UNCHANGED << query_all_cycles, position >>
           /\ child_frame' = query_result
           /\ log' = log \o Compiling \o
                << LostTargetsRecord(setxor1d(query_names,
                                              NameColumn(query_result))),
                   LogRecord("INFO", "Saving results...", 0, {}) >>
    /\ parent_frame' = cycle.frame
    /\ UNCHANGED << listdir, contents, archive, filenames, query_vars >>

\* After the loop: the frames are concatenated, sorted and saved as "all"
SaveAll ==
    /\ pc = "loop"
    /\ position = Len(filenames)
    /\ query_all_cycles # << >>
    /\ \E rows \in sort(concat(query_all_cycles)) :
         LET saved == save_parameters(Frame(query_all_cycles[1].columns, rows),
                                      "all")
         IN  /\ output' = output \o saved.written
             /\ calls' = calls \o [i \in 1..Len(saved.written) |->
                                     Call("write", saved.written[i].file)]
             /\ pc' = IF saved.raised = NoError THEN "done" ELSE "raised"
             /\ error' = saved.raised
    /\ UNCHANGED << listdir, contents, archive, filenames, position,
                    query_all_cycles, log, frame_vars, query_vars >>

\* After the loop with no frame collected: pl.concat([]) raises
ConcatRaises ==
    /\ pc = "loop"
    /\ position = Len(filenames)
    /\ query_all_cycles = << >>
    /\ error' = "ValueError"
    /\ pc' = "raised"
    /\ UNCHANGED << listdir, contents, archive, filenames, position,
                    query_all_cycles, output, calls, log, frame_vars,
                    query_vars >>

NextMain ==
    \/ StartMain
    \/ SkipFile
    \/ HandleFileQueryRaises
    \/ HandleFileUpdateRaises
    \/ HandleFile
    \/ SaveAll
    \/ ConcatRaises

SpecMain == InitMain /\ [][NextMain]_vars

(***************************************************************************)
(* Properties of update_frame                                              *)
(***************************************************************************)
Returned == pc = "returned"

Hits(i) == RowsByPredicate(child_frame, parent_frame.rows[i]["planet_name"])

LocalIndex == 1..Len(parent_frame.rows)

UniqueRemoteNames ==
    \A i \in 1..Len(child_frame.rows) : \A j \in 1..Len(child_frame.rows) :
        child_frame.rows[i]["planet_name"] = child_frame.rows[j]["planet_name"]
            => i = j

Count(rs, r) == Cardinality({ i \in 1..Len(rs) : rs[i] = r })

SameRows(a, b) ==
    /\ Len(a) = Len(b)
    /\ \A i \in 1..Len(a) : Count(a, a[i]) = Count(b, a[i])

NewColumns == child_frame.columns \ parent_frame.columns

\* C1 (as stated): whenever the names of R are unique, update_frame(L, R)
\* returns a table with exactly as many rows as L, for L of any length,
\* zero included.
C1_RowCountEqualsLocal ==
    (Returned /\ UniqueRemoteNames)
        => /\ finalised.raised = NoError
           /\ Len(finalised.rows) = Len(parent_frame.rows)

\* The row the specification describes for local row l when exactly one remote row
\* has its name: the remote row's value in every column of R, l's value in
\* the other columns.
TheMatch(l) ==
    child_frame.rows[CHOOSE k \in 1..Len(child_frame.rows) :
        child_frame.rows[k]["planet_name"] = l["planet_name"]]

ExpectedMatched(l) ==
    [c \in parent_frame.columns \cup child_frame.columns |->
        IF c \in child_frame.columns THEN TheMatch(l)[c] ELSE l[c]]

\* C2: when every name of L occurs exactly once in R (and L has a row),
\* update_frame returns one row per local row, holding in each column of R
\* the value of the R row of the same name and in every other column
\* (jwst_cycle included) the local row's value; rows that share a name
\* carry the same remote values.
C2_MatchedRowsCarryRemoteValues ==
    (Returned /\ LocalIndex # {} /\ \A i \in LocalIndex : Cardinality(Hits(i)) = 1)
        => /\ finalised.raised = NoError
           /\ SameRows(finalised.rows,
                       [i \in LocalIndex |-> ExpectedMatched(parent_frame.rows[i])])
           /\ \A i \in 1..Len(finalised.rows) : \A j \in 1..Len(finalised.rows) :
                 finalised.rows[i]["planet_name"] = finalised.rows[j]["planet_name"]
                    => \A c \in child_frame.columns :
                          finalised.rows[i][c] = finalised.rows[j][c]

C2_Witness ==
    /\ Returned
    /\ finalised.raised = NoError
    /\ Len(parent_frame.rows) = 2
    /\ parent_frame.rows[1]["planet_name"] = parent_frame.rows[2]["planet_name"]
    /\ parent_frame.rows[1]["pid"] # parent_frame.rows[2]["pid"]
    /\ "host_name" \in parent_frame.columns
    /\ Len(child_frame.rows) = 2
    /\ \A i \in LocalIndex : Cardinality(Hits(i)) = 1

\* C3: a local row whose name is in no row of R (R may be empty, or share
\* no name with L) makes update_rows raise nothing; the call returns unless
\* some other row has several matches, and then the row is in the output
\* with every column of R that L lacks equal to NaN, and every output row
\* has every column of R.
C3_UnmatchedRowsHoldSentinel ==
    Returned =>
        \A i \in LocalIndex :
            Hits(i) = {} =>
                /\ finalised.at # i
                /\ (\A k \in LocalIndex : Cardinality(Hits(k)) <= 1)
                        => finalised.raised = NoError
                /\ finalised.raised = NoError =>
                    /\ Count(finalised.rows,
                             parent_frame.rows[i] @@ [c \in NewColumns |-> NaN])
                         = Count(parent_frame.rows, parent_frame.rows[i])
                    /\ NaN \notin {"0", ""}
                    /\ \A j \in 1..Len(finalised.rows) :
                          child_frame.columns \subseteq DOMAIN finalised.rows[j]

C3_Witness ==
    /\ Returned
    /\ finalised.raised = NoError
    /\ Len(parent_frame.rows) = 2
    /\ Hits(1) = {}
    /\ Cardinality(Hits(2)) = 1
    /\ child_frame.rows # << >>
    /\ \E j \in 1..2 : finalised.rows[j]["radius_rearth"] = NaN

ReorderedFrames(frame) ==
    { Frame(frame.columns, rs) : rs \in Reorderings(frame.rows) }

TiesAreIdentical ==
    \A i \in LocalIndex : \A j \in LocalIndex :
        parent_frame.rows[i]["planet_name"] = parent_frame.rows[j]["planet_name"]
            => parent_frame.rows[i] = parent_frame.rows[j]

\* C4 (as stated): the returned rows are sorted ascending by planet_name
\* and every permutation of the rows of L and of R returns the same rows in
\* the same order, also when rows of L share a name and differ elsewhere.
C4_SameTableForEveryPermutation ==
    (Returned /\ finalised.raised = NoError)
        => /\ IsSortedByName(finalised.rows)
           /\ \A p \in ReorderedFrames(parent_frame) :
                 \A q \in ReorderedFrames(child_frame) :
                    update_frame(p, q) = { finalised }

\* C4 (amended): every permutation of the rows of L and of R has the same
\* outcome, the same exception or a table; a returned table is sorted
\* ascending by planet_name and has the same columns and the same rows, each
\* as often, for every permutation; the order is the same too when the rows
\* of L that share a name are identical.
C4_SameRowsForEveryPermutation ==
    Returned =>
        /\ finalised.raised = NoError => IsSortedByName(finalised.rows)
        /\ \A p \in ReorderedFrames(parent_frame) :
              \A q \in ReorderedFrames(child_frame) :
                 \A o \in update_frame(p, q) :
                    /\ o.raised = finalised.raised
                    /\ o.columns = finalised.columns
                    /\ IsSortedByName(o.rows)
                    /\ SameRows(o.rows, finalised.rows)
                    /\ TiesAreIdentical => o.rows = finalised.rows

C4_Witness ==
    /\ Returned
    /\ finalised.raised = NoError
    /\ Len(parent_frame.rows) = 2
    /\ StrLess(parent_frame.rows[2]["planet_name"],
               parent_frame.rows[1]["planet_name"])
    /\ Len(child_frame.rows) = 2
    /\ child_frame.rows[1] # child_frame.rows[2]
    /\ finalised.rows[1]["planet_name"] = parent_frame.rows[2]["planet_name"]

(***************************************************************************)
(* Properties of modules/epa_query.py                                      *)
(***************************************************************************)
LastLog == log[Len(log)]

\* C5 (as stated): when query_nasa_epa returns, the names the warning lists
\* are exactly the requested names absent from the result's pl_name column,
\* and the warning is written if and only if there is such a name.
C5_WarningListsRequestedMinusReturned ==
    pc = "returned" /\ Len(log) > 0 =>
        LET absent == Values(target_names) \ Values(result_table.pl_name)
        IN  /\ (LastLog.level = "WARNING") <=> (absent # {})
            /\ LastLog.level = "WARNING" => LastLog.names = absent

IsIdentity(entry) == entry[1] \in exceptions

\* The pairs the catalogue is to hold for one entry of the parameter list
ExpandedPairs(entry) ==
    IF IsIdentity(entry)
    THEN { << entry[1], entry[2] >> }
    ELSE { << entry[1], entry[2][1] \o "_" \o entry[2][2] >>,
           << entry[1] \o "err1", entry[2][1] \o "_errpos" >>,
           << entry[1] \o "err2", entry[2][1] \o "_errneg" >>,
           << entry[1] \o "_reflink", entry[2][1] \o "_ref" >> }

AllExpandedPairs ==
    UNION { ExpandedPairs(parameter_list[i]) : i \in 1..Len(parameter_list) }

NoCollision ==
    \A a \in AllExpandedPairs : \A b \in AllExpandedPairs : a[1] = b[1] => a = b

PhysicalKeys ==
    { parameter_list[i][1] : i \in { j \in 1..Len(parameter_list) :
                                       ~IsIdentity(parameter_list[j]) } }

\* C6: for a parameter list whose expanded keys do not collide, the catalogue
\* holds exactly the one pair of each identity entry and the four pairs of
\* each physical entry, each key once and none with the suffix lim; for
\* QUERY_PARAMETERS these are 53 entries.
C6_CatalogueIsExactExpansion ==
    (pc # "query_nasa_epa" /\ NoCollision) =>
        /\ { full_query_list[i] : i \in 1..Len(full_query_list) }
              = AllExpandedPairs
        /\ Len(full_query_list) = Cardinality(AllExpandedPairs)
        /\ \A k \in PhysicalKeys : (k \o "lim") \notin KeySet(full_query_list)
        /\ parameter_list = QUERY_PARAMETERS => Len(full_query_list) = 53

C6_Witness ==
    /\ pc = "search"
    /\ parameter_list = QUERY_PARAMETERS
    /\ Len(full_query_list) = 53
    /\ << "pl_radeerr2", "radius_errneg" >>
          \in { full_query_list[i] : i \in 1..Len(full_query_list) }

\* items joined by commas, nothing after the last
RECURSIVE Joined(_, _)
Joined(items, qualifier) ==
    IF items = << >> THEN ""
    ELSE IF Len(items) = 1 THEN qualifier \o items[1] \o qualifier
    ELSE qualifier \o items[1] \o qualifier \o "," \o Joined(Tail(items), qualifier)

\* C7: for names n1..nk (k >= 0) and catalogue keys c1..cm the query text is
\* exactly SELECT c1,...,cm FROM pscomppars WHERE pl_name IN ('n1',...,'nk'),
\* also for k = 0.
C7_QueryTextIsExact ==
    pc # "query_nasa_epa" =>
        adql_query = "SELECT " \o Joined(keys(full_query_list), "")
                     \o " FROM pscomppars WHERE pl_name IN ("
                     \o Joined(target_names, "'") \o ")"

C7_Witness ==
    /\ pc = "search"
    /\ target_names = << "55 Cnc e", "GJ 1214 b" >>
    /\ parameter_list = << << "pl_name", "planet_name" >> >>
    /\ adql_query =
         "SELECT pl_name FROM pscomppars WHERE pl_name IN ('55 Cnc e','GJ 1214 b')"

(***************************************************************************)
(* Properties of main                                                      *)
(***************************************************************************)
FullPath(c) == OUTPUT \o "/parameters_full/jtp_full_cycle-" \o c \o ".csv"
ReducedPath(c) == OUTPUT \o "/jtp_cycle-" \o c \o ".csv"
CycleOf(f) == str(read_jwst_cycle(f, NoFrame).cycle_n)

IsCsv(f) == LastPart(f) = "csv"
CsvBefore(k) == { j \in 1..(k - 1) : IsCsv(filenames[j]) }
CallsOf(op, what) ==
    { i \in 1..Len(calls) : calls[i] = Call(op, what) }
WritesOf(path) == { i \in 1..Len(output) : output[i].file = path }

\* C8: when the query of file i raises, the run is over with that error:
\* file i was queried once, none of its outputs and no "all" output is
\* written, no later file is read, queried or skipped, and the outputs are
\* exactly the full and the reduced output of each csv file before i.
C8_QueryFailureAbortsRun ==
    error = "DALServiceError" =>
        LET i == position + 1
        IN  /\ pc = "raised"
            /\ IsCsv(filenames[i])
            /\ Cardinality(CallsOf("query", filenames[i])) = 1
            /\ WritesOf(FullPath(CycleOf(filenames[i]))) = {}
            /\ WritesOf(ReducedPath(CycleOf(filenames[i]))) = {}
            /\ WritesOf(FullPath("all")) = {}
            /\ WritesOf(ReducedPath("all")) = {}
            /\ \A j \in (i + 1)..Len(filenames) :
                  \A k \in 1..Len(calls) : calls[k].what # filenames[j]
            /\ Len(output) = 2 * Cardinality(CsvBefore(i))
            /\ \A j \in CsvBefore(i) :
                  /\ Cardinality(WritesOf(FullPath(CycleOf(filenames[j])))) = 1
                  /\ Cardinality(WritesOf(ReducedPath(CycleOf(filenames[j])))) = 1
            /\ ~ ENABLED NextMain

C8_Witness ==
    /\ pc = "raised"
    /\ error = "DALServiceError"
    /\ position = 2
    /\ Len(filenames) = 3
    /\ Len(output) = 2

AllFrameRows == concat(query_all_cycles)

ReadCalls == SelectSeq(calls, LAMBDA c : c.op = "read")

\* C9 (as stated): a run in which no query raised ends with every csv file
\* handled once, in sorted order, and no other file queried, each frame
\* appended once after its two outputs were written, and the "all" output
\* written once, after every other output, holding the rows of all frames
\* sorted by planet_name.
C9_AllOutputWrittenOnce ==
    (pc \in { "done", "raised" } /\ error # "DALServiceError") =>
        /\ pc = "done"
        /\ \A i \in 1..Len(ReadCalls) : \A j \in 1..Len(ReadCalls) :
              i < j => StrLess(ReadCalls[i].what, ReadCalls[j].what)
        /\ \A j \in 1..Len(filenames) :
              IF IsCsv(filenames[j])
              THEN /\ Cardinality(CallsOf("query", filenames[j])) = 1
                   /\ Cardinality(CallsOf("append", filenames[j])) = 1
                   /\ \A a \in CallsOf("append", filenames[j]) :
                        \A w \in CallsOf("write", FullPath(CycleOf(filenames[j])))
                             \cup CallsOf("write", ReducedPath(CycleOf(filenames[j]))) :
                           w < a
              ELSE CallsOf("query", filenames[j]) = {}
        /\ Len(query_all_cycles) = Cardinality(CsvBefore(Len(filenames) + 1))
        /\ WritesOf(FullPath("all")) = { Len(output) - 1 }
        /\ WritesOf(ReducedPath("all")) = { Len(output) }
        /\ IsSortedByName(output[Len(output) - 1].frame.rows)
        /\ SameRows(output[Len(output) - 1].frame.rows, AllFrameRows)

\* C10: when two or more rows of the query result have the name of a local
\* row, update_frame raises TooManyRowsReturnedError and returns no table,
\* the run ends with that error, and no output of that file is written nor
\* its frame appended.
C10_SeveralMatchesRaise ==
    (pc # "main" /\ \E i \in LocalIndex : Cardinality(Hits(i)) >= 2) =>
        /\ pc = "raised"
        /\ error = "TooManyRowsReturnedError"
        /\ finalised.raised = "TooManyRowsReturnedError"
        /\ finalised.rows = << >>
        /\ WritesOf(FullPath(CycleOf(filenames[position + 1]))) = {}
        /\ WritesOf(ReducedPath(CycleOf(filenames[position + 1]))) = {}
        /\ CallsOf("append", filenames[position + 1]) = {}
        /\ ~ ENABLED NextMain

C10_Witness ==
    /\ pc = "raised"
    /\ error = "TooManyRowsReturnedError"
    /\ Len(child_frame.rows) = 2
    /\ Cardinality(Hits(1)) = 2
    /\ position >= 1

====
